---- MODULE Spec2Model ----
(***************************************************************************)
(* lidder: a line-oriented auditor.  Every rule has a content pattern and  *)
(* a list of files in which the pattern is expected; a run scans either    *)
(* the tree under "." or one named file, records per rule the files in     *)
(* which the pattern was seen, and fails when seen and expected differ.    *)
(*                                                                         *)
(* Abstractions.  A path is the sequence of its components (<<>> is ".",   *)
(* <<"gen", "c.go">> is "gen/c.go").  A line is the set of rule patterns   *)
(* that occur in its text.  A regular expression is known by the strings   *)
(* of the universe it matches (PathLanguage, ContentMatch); "(" is the     *)
(* expression that does not compile.                                       *)
(***************************************************************************)
EXTENDS Integers, Sequences, FiniteSets, TLC

VARIABLES
    args,               \* os.Args
    configFile,         \* what ioutil.ReadFile(os.Args[1]) and yaml find
    fs,                 \* the file system: kind and content of every path
    defs,               \* *defs returned by parse (results in main)
    expectedFilenames,  \* rule index -> rule.expectedFilenames (keys)
    actualFilenames,    \* rule index -> rule.actualFilenames (keys)
    pc,                 \* position of main
    stack,              \* active calls of exploreDir, innermost last
    cur,                \* matchAgainstFile: filename and the next line, or NoFile
    err,                \* the error on its way to oops, or NoErr
    singleFileMode,     \* main's singleFileMode
    ruleIdx,            \* main's range index over results.Rules
    shouldNotBeThere,   \* main's shouldNotBeThere of the current rule
    shouldBeThere,      \* main's shouldBeThere of the current rule
    testFailed,         \* main's testFailed
    stdout,             \* what main printed, one record per message
    exitCode,           \* process exit status, or Running
    opened,             \* history: files matchAgainstFile was called on
    scanned             \* history: files matchAgainstFile returned nil for

vars == <<args, configFile, fs, defs, expectedFilenames, actualFilenames, pc,
          stack, cur, err, singleFileMode, ruleIdx, shouldNotBeThere,
          shouldBeThere, testFailed, stdout, exitCode, opened, scanned>>

----------------------------------------------------------------------------
(* Bounds and universes *)

MaxLines == 2       \* terminated lines of the file whose content varies freely
MaxPatterns == 2    \* length of the include and of the exclude list

Root == <<>>
A == <<"a.go">>
B == <<"b.go">>
G == <<"gen">>
GC == <<"gen", "c.go">>
AllPaths == {A, B, G, GC}

NoFile == [filename |-> Root, lineNo |-> 0]
NoErr == "nil"
NoDefs == [Include |-> <<>>, Exclude |-> <<>>, Rules |-> <<>>]
Running == -1

Tokens == {"TODO", "FIXME"}
LineTexts == SUBSET Tokens
BadExpr == "("

\* regexp.Compile: fails on an expression that is no regular expression
CompileFails(expr) == expr = BadExpr

\* (*Regexp).Match on a path: the paths of the universe each expression matches
PathLanguage(expr) ==
    CASE expr = "\\.go$" -> {A, B, GC}
      [] expr = "^gen/"  -> {GC}
      [] expr = "b"      -> {B}
      [] OTHER           -> {}

PathMatch(expr, filename) == filename \in PathLanguage(expr)

\* (*Regexp).Match on a line: a literal pattern matches where it occurs
ContentMatch(expr, line) == expr \in line

\* filepath.Join(dirname, name)
Join(dirname, name) == Append(dirname, name)

Range(s) == {s[i] : i \in DOMAIN s}

SeqsUpTo(S, n) == UNION {[1..k -> S] : k \in 0..n}

\* the orders in which a range over a map with key set S can yield its keys
Orders(S) == {o \in [1..Cardinality(S) -> S] : Range(o) = S}

----------------------------------------------------------------------------
(* The inputs of a run: the file system, the configuration, the arguments *)

\* A file is its newline-terminated lines and what follows the last newline
\* (tail: <<>> when the file ends with a newline or is empty).
File(lines, tail) == [lines |-> lines, tail |-> tail]
EmptyFile == File(<<>>, <<>>)
Both == {"TODO", "FIXME"}

FileContents == {File(l, t) : l \in SeqsUpTo(LineTexts, MaxLines),
                              t \in SeqsUpTo(LineTexts, 1)}

\* a tree: a.go, b.go (a regular file or, say, a socket), and the directory
\* gen with c.go when there is one
FileSystem(bKind, withGen, a, b, c) ==
    [kind |-> [p \in AllPaths |->
                  CASE p = A -> "file"
                    [] p = B -> bKind
                    [] p = G -> IF withGen THEN "dir" ELSE "none"
                    [] OTHER -> IF withGen THEN "file" ELSE "none"],
     content |-> [p \in AllPaths |->
                  CASE p = A -> a
                    [] p = B -> IF bKind = "file" THEN b ELSE EmptyFile
                    [] p = G -> EmptyFile
                    [] OTHER -> IF withGen THEN c ELSE EmptyFile]]

\* every content of a.go, beside a few trees around it
ContentFileSystems ==
    {FileSystem(k, g, a, File(<<Both>>, <<>>), c) :
        k \in {"file", "other"}, g \in BOOLEAN, a \in FileContents,
        c \in {File(<<{"TODO"}>>, <<>>), File(<<>>, <<{"TODO"}>>)}}

\* every tree, with one content per file
PlainFileSystems ==
    {FileSystem(k, g, File(<<{"TODO"}, {}>>, <<{"FIXME"}>>),
                File(<<Both>>, <<>>), File(<<{"TODO"}>>, <<>>)) :
        k \in {"file", "other"}, g \in BOOLEAN}

Config(include, exclude, expected1, expected2) ==
    [readable |-> TRUE, yamlOK |-> TRUE, Include |-> include,
     Exclude |-> exclude,
     Rules |-> <<[Pattern |-> "TODO", Expected |-> expected1],
                 [Pattern |-> "FIXME", Expected |-> expected2]>>]

PathExprs == {"\\.go$", "^gen/"}
PathExprLists == SeqsUpTo(PathExprs, MaxPatterns)

\* every expectation of the first rule (one list names a path twice)
ExpectedLists ==
    {<<>>, <<A>>, <<B>>, <<G>>, <<GC>>, <<A, B>>, <<A, GC, A>>, <<B, G>>,
     <<A, B, GC>>, <<A, B, G, GC>>}

ContentConfigs ==
    {Config(<<"\\.go$">>, e, <<A>>, <<>>) : e \in {<<>>, <<"^gen/">>}}

FilterConfigs ==
    {Config(i, e, x, <<>>) : i \in PathExprLists, e \in PathExprLists,
                             x \in {<<A, B>>, <<GC>>}}

ExpectedConfigs ==
    {Config(<<"\\.go$">>, e, x1, x2) :
        e \in {<<>>, <<"b">>}, x1 \in ExpectedLists,
        x2 \in {<<>>, <<B>>, <<A, B, GC>>}}

\* a configuration that cannot be read or parsed
BrokenConfigs ==
    {[readable |-> r, yamlOK |-> y, Include |-> i, Exclude |-> e,
      Rules |-> <<[Pattern |-> p, Expected |-> <<A>>]>>] :
        r \in BOOLEAN, y \in BOOLEAN,
        i \in {<<"\\.go$">>, <<BadExpr>>}, e \in {<<>>, <<BadExpr>>},
        p \in {"TODO", BadExpr}}

NoTarget == <<"lidder", "lid.yaml">>
WithTarget(t) == <<"lidder", "lid.yaml", t>>

\* The inputs of a run: every content of a.go, every pair of filter lists,
\* every expectation and every broken configuration, each beside a few values
\* of the others, with and without a target.
Inputs ==
    \/ /\ args \in {NoTarget, WithTarget(A)}
       /\ fs \in ContentFileSystems
       /\ configFile \in ContentConfigs
    \/ /\ args \in {NoTarget, WithTarget(A), WithTarget(GC)}
       /\ fs \in PlainFileSystems
       /\ configFile \in FilterConfigs \cup ExpectedConfigs
    \/ /\ args \in {<<"lidder">>, NoTarget, WithTarget(A)}
       /\ fs \in PlainFileSystems
       /\ configFile \in BrokenConfigs \cup ContentConfigs

Init ==
    /\ Inputs
    /\ defs = NoDefs
    /\ expectedFilenames = <<>>
    /\ actualFilenames = <<>>
    /\ pc = "main"
    /\ stack = <<>>
    /\ cur = NoFile
    /\ err = NoErr
    /\ singleFileMode = FALSE
    /\ ruleIdx = 1
    /\ shouldNotBeThere = <<>>
    /\ shouldBeThere = <<>>
    /\ testFailed = FALSE
    /\ stdout = <<>>
    /\ exitCode = Running
    /\ opened = {}
    /\ scanned = {}

----------------------------------------------------------------------------
(* parse *)

RECURSIVE AnyCompileFails(_, _)
AnyCompileFails(exprs, i) ==
    IF i > Len(exprs) THEN FALSE
    ELSE IF CompileFails(exprs[i]) THEN TRUE
    ELSE AnyCompileFails(exprs, i + 1)

\* parse returns an error: yaml.Unmarshal or one regexp.Compile failed
parseFails(input) ==
    \/ ~input.yamlOK
    \/ AnyCompileFails(input.Include, 1)
    \/ AnyCompileFails(input.Exclude, 1)
    \/ AnyCompileFails([i \in DOMAIN input.Rules |-> input.Rules[i].Pattern], 1)

\* the *defs parse returns; a compiled expression is known by its source
parse(input) ==
    [Include |-> input.Include, Exclude |-> input.Exclude, Rules |-> input.Rules]

\* rule.expectedFilenames after parse: one key per listed path
parseExpected(input) ==
    [i \in DOMAIN input.Rules |-> Range(input.Rules[i].Expected)]

\* rule.actualFilenames after parse: empty maps
parseActual(input) == [i \in DOMAIN input.Rules |-> {}]

----------------------------------------------------------------------------
(* shouldCheck *)

\* one of shouldCheck's loops: TRUE at the first expression that matches
RECURSIVE AnyMatches(_, _, _)
AnyMatches(exprs, i, filename) ==
    IF i > Len(exprs) THEN FALSE
    ELSE IF PathMatch(exprs[i], filename) THEN TRUE
    ELSE AnyMatches(exprs, i + 1, filename)

\* variant: the include loop runs before the exclude loop
shouldCheckIncludeFirst(d, filename) ==
    IF AnyMatches(d.Include, 1, filename) THEN TRUE
    ELSE IF AnyMatches(d.Exclude, 1, filename) THEN FALSE
    ELSE FALSE

shouldCheck(d, filename) ==
    IF AnyMatches(d.Exclude, 1, filename) THEN FALSE
    ELSE IF AnyMatches(d.Include, 1, filename) THEN TRUE
    ELSE FALSE

----------------------------------------------------------------------------
(* adjustExpectedFilenames, Mismatches, matchAgainstLine *)

\* variant: the target becomes expected whether or not it was
adjustAlwaysExpects(expected, filename) ==
    [i \in DOMAIN expected |-> {filename}]

adjustExpectedFilenames(expected, filename) ==
    [i \in DOMAIN expected |->
        IF filename \in expected[i] THEN {filename} ELSE {}]

\* one of Mismatches' loops: the keys, in the order the range yields them,
\* that the other map does not hold
NotIn(order, other) == SelectSeq(order, LAMBDA f : f \notin other)

\* variant: the second loop ranges over actualFilenames too
MismatchesSameLoop(expected, actual) ==
    {<<NotIn(oa, expected), NotIn(oe, expected)>> :
        oa \in Orders(actual), oe \in Orders(actual)}

\* the pairs (shouldNotBeThere, shouldBeThere) Mismatches can return,
\* one for every order of the two ranges
Mismatches(expected, actual) ==
    {<<NotIn(oa, expected), NotIn(oe, actual)>> :
        oa \in Orders(actual), oe \in Orders(expected)}

RECURSIVE matchRules(_, _, _, _, _)
matchRules(rules, i, filename, line, actual) ==
    IF i > Len(rules) THEN actual
    ELSE matchRules(rules, i + 1, filename, line,
            IF ContentMatch(rules[i].Pattern, line)
            THEN [actual EXCEPT ![i] = @ \cup {filename}]
            ELSE actual)

\* variant: the loop breaks at the first rule that matches
RECURSIVE matchRulesFirstOnly(_, _, _, _, _)
matchRulesFirstOnly(rules, i, filename, line, actual) ==
    IF i > Len(rules) THEN actual
    ELSE IF ContentMatch(rules[i].Pattern, line)
    THEN [actual EXCEPT ![i] = @ \cup {filename}]
    ELSE matchRulesFirstOnly(rules, i + 1, filename, line, actual)

matchAgainstLineFirstOnly(rules, filename, line, actual) ==
    matchRulesFirstOnly(rules, 1, filename, line, actual)

\* variant: a match replaces the map instead of adding a key
RECURSIVE matchRulesOverwrite(_, _, _, _, _)
matchRulesOverwrite(rules, i, filename, line, actual) ==
    IF i > Len(rules) THEN actual
    ELSE matchRulesOverwrite(rules, i + 1, filename, line,
            IF ContentMatch(rules[i].Pattern, line)
            THEN [actual EXCEPT ![i] = {filename}]
            ELSE actual)

matchAgainstLineOverwrite(rules, filename, line, actual) ==
    matchRulesOverwrite(rules, 1, filename, line, actual)

\* actualFilenames after matchAgainstLine(filename, line)
matchAgainstLine(rules, filename, line, actual) ==
    matchRules(rules, 1, filename, line, actual)

----------------------------------------------------------------------------
(* main, up to the choice of the mode *)

Message(m, i, extra, missing) ==
    [msg |-> m, rule |-> i, extra |-> extra, missing |-> missing]

\* main: wrong number of arguments
Usage ==
    /\ pc = "main"
    /\ Len(args) # 2 /\ Len(args) # 3
    /\ stdout' = Append(stdout, Message("usage", 0, {}, {}))
    /\ exitCode' = 1
    /\ pc' = "done"
    /\ UNCHANGED <<args, configFile, fs, defs, expectedFilenames,
                   actualFilenames, stack, cur, err, singleFileMode, ruleIdx,
                   shouldNotBeThere, shouldBeThere, testFailed, opened, scanned>>

\* main: ioutil.ReadFile(os.Args[1]) and parse(config)
LoadConfig ==
    /\ pc = "main"
    /\ Len(args) = 2 \/ Len(args) = 3
    /\ IF ~configFile.readable
       THEN /\ err' = "ReadFile"
            /\ pc' = "oops"
            /\ UNCHANGED <<defs, expectedFilenames, actualFilenames>>
       ELSE IF parseFails(configFile)
       THEN /\ err' = "parse"
            /\ pc' = "oops"
            /\ UNCHANGED <<defs, expectedFilenames, actualFilenames>>
       ELSE /\ defs' = parse(configFile)
            /\ expectedFilenames' = parseExpected(configFile)
            /\ actualFilenames' = parseActual(configFile)
            /\ pc' = "mode"
            /\ UNCHANGED err
    /\ UNCHANGED <<args, configFile, fs, stack, cur, singleFileMode, ruleIdx,
                   shouldNotBeThere, shouldBeThere, testFailed, stdout,
                   exitCode, opened, scanned>>

\* variant: a target is named, in scope or not
singleFileAnyTarget == Len(args) = 3

\* the condition of main's if: a target is named and it is in scope
singleFileRequested == Len(args) = 3 /\ shouldCheck(defs, args[3])

\* main: single-file mode, up to the call of matchAgainstFile
SingleFile ==
    /\ pc = "mode"
    /\ singleFileRequested
    /\ singleFileMode' = TRUE
    /\ expectedFilenames' = adjustExpectedFilenames(expectedFilenames, args[3])
    /\ cur' = [filename |-> args[3], lineNo |-> 0]
    /\ pc' = "open"
    /\ UNCHANGED <<args, configFile, fs, defs, actualFilenames, stack, err,
                   ruleIdx, shouldNotBeThere, shouldBeThere, testFailed,
                   stdout, exitCode, opened, scanned>>

\* main: full-tree mode, the call of exploreDir(".")
FullTree ==
    /\ pc = "mode"
    /\ ~singleFileRequested
    /\ stack' = <<[dirname |-> Root, listed |-> FALSE, files |-> {}]>>
    /\ pc' = "walk"
    /\ UNCHANGED <<args, configFile, fs, defs, expectedFilenames,
                   actualFilenames, cur, err, singleFileMode, ruleIdx,
                   shouldNotBeThere, shouldBeThere, testFailed, stdout,
                   exitCode, opened, scanned>>

----------------------------------------------------------------------------
(* matchAgainstFile *)

\* where matchAgainstFile returns nil to: main, or exploreDir's loop
AfterFile == IF singleFileMode THEN "report" ELSE "walk"

\* variant: a file that cannot be opened is skipped
OpenSkipsOnError ==
    /\ pc = "open"
    /\ opened' = opened \cup {cur.filename}
    /\ \/ /\ err' = "open"
          /\ pc' = AfterFile
          /\ cur' = NoFile
          /\ UNCHANGED stack
       \/ /\ fs.kind[cur.filename] # "none"
          /\ pc' = "read"
          /\ cur' = [cur EXCEPT !.lineNo = 1]
          /\ UNCHANGED <<err, stack>>
    /\ UNCHANGED <<args, configFile, fs, defs, expectedFilenames,
                   actualFilenames, singleFileMode, ruleIdx, shouldNotBeThere,
                   shouldBeThere, testFailed, stdout, exitCode, scanned>>

\* matchAgainstFile: os.Open.  A path that does not exist cannot be opened;
\* any other open may fail.  An error returns through every exploreDir.
Open ==
    /\ pc = "open"
    /\ opened' = opened \cup {cur.filename}
    /\ \/ /\ err' = "open"
          /\ pc' = "oops"
          /\ cur' = NoFile
          /\ stack' = <<>>
       \/ /\ fs.kind[cur.filename] # "none"
          /\ pc' = "read"
          /\ cur' = [cur EXCEPT !.lineNo = 1]
          /\ UNCHANGED <<err, stack>>
    /\ UNCHANGED <<args, configFile, fs, defs, expectedFilenames,
                   actualFilenames, singleFileMode, ruleIdx, shouldNotBeThere,
                   shouldBeThere, testFailed, stdout, exitCode, scanned>>

\* matchAgainstFile: one reader.ReadString('\n') and what the loop does with it
ReadString ==
    /\ pc = "read"
    /\ LET content == fs.content[cur.filename]
           n == cur.lineNo
       IN \/ \* an error that is not io.EOF: return err
             /\ err' = "read"
             /\ pc' = "oops"
             /\ cur' = NoFile
             /\ stack' = <<>>
             /\ UNCHANGED <<actualFilenames, scanned>>
          \/ \* a line with its newline, err == nil: matchAgainstLine
             /\ fs.kind[cur.filename] # "dir"
             /\ n <= Len(content.lines)
             /\ actualFilenames' =
                    matchAgainstLine(defs.Rules, cur.filename,
                                     content.lines[n], actualFilenames)
             /\ cur' = [cur EXCEPT !.lineNo = n + 1]
             /\ UNCHANGED <<err, pc, stack, scanned>>
          \/ \* io.EOF, with whatever followed the last newline: return nil
             /\ fs.kind[cur.filename] # "dir"
             /\ n > Len(content.lines)
             /\ scanned' = scanned \cup {cur.filename}
             /\ cur' = NoFile
             /\ pc' = AfterFile
             /\ UNCHANGED <<err, stack, actualFilenames>>
    /\ UNCHANGED <<args, configFile, fs, defs, expectedFilenames,
                   singleFileMode, ruleIdx, shouldNotBeThere, shouldBeThere,
                   testFailed, stdout, exitCode, opened>>

----------------------------------------------------------------------------
(* exploreDir *)

Top == stack[Len(stack)]

\* the names ioutil.ReadDir(dirname) lists
Entries(dirname) ==
    {p[Len(p)] : p \in {q \in AllPaths : /\ Len(q) = Len(dirname) + 1
                                          /\ SubSeq(q, 1, Len(dirname)) = dirname
                                          /\ fs.kind[q] # "none"}}

\* exploreDir: ioutil.ReadDir(dirname)
ReadDir ==
    /\ pc = "walk"
    /\ stack # <<>>
    /\ ~Top.listed
    /\ \/ /\ err' = "ReadDir"
          /\ pc' = "oops"
          /\ stack' = <<>>
       \/ /\ stack' = [stack EXCEPT ![Len(stack)] =
                          [Top EXCEPT !.listed = TRUE,
                                      !.files = Entries(Top.dirname)]]
          /\ UNCHANGED <<err, pc>>
    /\ UNCHANGED <<args, configFile, fs, defs, expectedFilenames,
                   actualFilenames, cur, singleFileMode, ruleIdx,
                   shouldNotBeThere, shouldBeThere, testFailed, stdout,
                   exitCode, opened, scanned>>

\* variant: every regular file is scanned
isScannedUnfiltered(filename) == fs.kind[filename] = "file"

\* exploreDir: the entry is a regular file and shouldCheck accepts it
isScanned(filename) ==
    fs.kind[filename] = "file" /\ shouldCheck(defs, filename)

\* exploreDir: one iteration of the loop over the entries.  The entries come
\* in the order of their names, which the model leaves open: any entry not
\* yet visited may be the next.
VisitEntry ==
    /\ pc = "walk"
    /\ stack # <<>>
    /\ Top.listed
    /\ \E name \in Top.files :
         LET filename == Join(Top.dirname, name)
             rest == [stack EXCEPT ![Len(stack)].files = @ \ {name}]
         IN CASE fs.kind[filename] = "dir" ->
                  /\ stack' = Append(rest, [dirname |-> filename,
                                            listed |-> FALSE, files |-> {}])
                  /\ UNCHANGED <<cur, pc>>
              [] isScanned(filename) ->
                  /\ stack' = rest
                  /\ cur' = [filename |-> filename, lineNo |-> 0]
                  /\ pc' = "open"
              [] OTHER ->
                  /\ stack' = rest
                  /\ UNCHANGED <<cur, pc>>
    /\ UNCHANGED <<args, configFile, fs, defs, expectedFilenames,
                   actualFilenames, err, singleFileMode, ruleIdx,
                   shouldNotBeThere, shouldBeThere, testFailed, stdout,
                   exitCode, opened, scanned>>

\* exploreDir: the loop is over, return nil (to the caller's loop, or to main)
ReturnDir ==
    /\ pc = "walk"
    /\ stack # <<>>
    /\ Top.listed
    /\ Top.files = {}
    /\ stack' = SubSeq(stack, 1, Len(stack) - 1)
    /\ pc' = IF Len(stack) = 1 THEN "report" ELSE "walk"
    /\ UNCHANGED <<args, configFile, fs, defs, expectedFilenames,
                   actualFilenames, cur, err, singleFileMode, ruleIdx,
                   shouldNotBeThere, shouldBeThere, testFailed, stdout,
                   exitCode, opened, scanned>>

----------------------------------------------------------------------------
(* main, after the scan *)

\* what main prints for a rule whose lists are extra and missing
RuleMessages(i, extra, missing) ==
    IF Len(extra) = 0 /\ Len(missing) = 0 THEN <<>>
    ELSE IF singleFileMode
    THEN IF Len(extra) # 0
         THEN <<Message("found", i, {}, {})>>
         ELSE <<Message("expected but not found", i, {}, {})>>
    ELSE <<Message("mismatch", i, Range(extra), Range(missing))>>

\* main: one iteration of the loop over results.Rules
ReportRule ==
    /\ pc = "report"
    /\ ruleIdx <= Len(defs.Rules)
    /\ \E m \in Mismatches(expectedFilenames[ruleIdx], actualFilenames[ruleIdx]) :
         /\ shouldNotBeThere' = m[1]
         /\ shouldBeThere' = m[2]
         /\ testFailed' = (testFailed \/ Len(m[1]) # 0 \/ Len(m[2]) # 0)
         /\ stdout' = stdout \o RuleMessages(ruleIdx, m[1], m[2])
    /\ ruleIdx' = ruleIdx + 1
    /\ UNCHANGED <<args, configFile, fs, defs, expectedFilenames,
                   actualFilenames, pc, stack, cur, err, singleFileMode,
                   exitCode, opened, scanned>>

\* variant: a failed test ends with the status of an error
VerdictErrorStatus(failed) == IF failed THEN 1 ELSE 0

\* the status main ends with once every rule is reconciled
Verdict(failed) == IF failed THEN 2 ELSE 0

\* main: the end, os.Exit(2) or the success message and a return
Exit ==
    /\ pc = "report"
    /\ ruleIdx > Len(defs.Rules)
    /\ exitCode' = Verdict(testFailed)
    /\ stdout' = Append(stdout, Message(IF testFailed THEN "failed" ELSE "ok",
                                        0, {}, {}))
    /\ pc' = "done"
    /\ UNCHANGED <<args, configFile, fs, defs, expectedFilenames,
                   actualFilenames, stack, cur, err, singleFileMode, ruleIdx,
                   shouldNotBeThere, shouldBeThere, testFailed, opened, scanned>>

\* oops: the error goes to stderr, os.Exit(1)
Oops ==
    /\ pc = "oops"
    /\ exitCode' = 1
    /\ pc' = "done"
    /\ UNCHANGED <<args, configFile, fs, defs, expectedFilenames,
                   actualFilenames, stack, cur, err, singleFileMode, ruleIdx,
                   shouldNotBeThere, shouldBeThere, testFailed, stdout,
                   opened, scanned>>

Next ==
    \/ Usage
    \/ LoadConfig
    \/ SingleFile
    \/ FullTree
    \/ Open
    \/ ReadString
    \/ ReadDir
    \/ VisitEntry
    \/ ReturnDir
    \/ ReportRule
    \/ Exit
    \/ Oops

Spec == Init /\ [][Next]_vars

----------------------------------------------------------------------------
(* What the properties speak of *)

Rules == DOMAIN defs.Rules
Target == args[3]

\* the configuration was read and parsed
Parsed ==
    /\ pc # "main"
    /\ Len(args) \in {2, 3}
    /\ err \notin {"ReadFile", "parse"}

\* main chose between the single file and the tree
ModeChosen == Parsed /\ pc # "mode"

\* the scan returned nil and main went on to the rules
ScanCompleted == ModeChosen /\ err = NoErr /\ pc \in {"report", "done"}

\* the filter, stated over the two lists as sets
InScope(p) ==
    /\ \A j \in DOMAIN defs.Exclude : ~PathMatch(defs.Exclude[j], p)
    /\ \E j \in DOMAIN defs.Include : PathMatch(defs.Include[j], p)

\* p is a regular file of the tree under "."
InTree(p) ==
    /\ fs.kind[p] = "file"
    /\ \A k \in 1..(Len(p) - 1) : fs.kind[SubSeq(p, 1, k)] = "dir"

\* the files a full-tree scan is to read
ScanSet == {p \in AllPaths : InTree(p) /\ InScope(p)}

\* the expectation the configuration gives rule i
Configured(i) == Range(configFile.Rules[i].Expected)

\* rule i's pattern occurs on a newline-terminated line of p
SeenIn(i, p) ==
    \E n \in DOMAIN fs.content[p].lines :
        ContentMatch(defs.Rules[i].Pattern, fs.content[p].lines[n])

\* rule i's pattern occurs after the last newline of p
SeenInTail(i, p) ==
    /\ fs.content[p].tail # <<>>
    /\ ContentMatch(defs.Rules[i].Pattern, fs.content[p].tail[1])

----------------------------------------------------------------------------
(* C1: Mismatches returns as extra exactly the paths of actualFiles that    *)
(* are not in expectedFiles and as missing exactly the paths of             *)
(* expectedFiles that are not in actualFiles, each once, and it changes     *)
(* neither set.                                                             *)
C1_MismatchesAreTheDifferences ==
    [][(pc = "report" /\ ruleIdx' = ruleIdx + 1) =>
         LET e == expectedFilenames[ruleIdx]
             a == actualFilenames[ruleIdx]
         IN /\ Range(shouldNotBeThere') = a \ e
            /\ Len(shouldNotBeThere') = Cardinality(a \ e)
            /\ Range(shouldBeThere') = e \ a
            /\ Len(shouldBeThere') = Cardinality(e \ a)
            /\ expectedFilenames' = expectedFilenames
            /\ actualFilenames' = actualFilenames]_vars

\* Mismatches returned two extra paths and a missing one for the first rule
\* and left out a path that is in both sets
C1_Witness ==
    /\ pc = "report"
    /\ ruleIdx = 2
    /\ Len(shouldNotBeThere) = 2
    /\ Len(shouldBeThere) = 1
    /\ expectedFilenames[1] \cap actualFilenames[1] # {}

(* C2: matchAgainstFile processes the final line of a file that has no      *)
(* trailing newline: once a file is scanned, a rule whose pattern occurs    *)
(* there has the file in its actualFiles.                                   *)
C2_FinalPartialLineIsMatched ==
    \A p \in scanned : \A i \in Rules :
        SeenInTail(i, p) => p \in actualFilenames[i]

(* C3: shouldCheck(path) is true iff no exclude pattern matches the path    *)
(* and some include pattern does: an exclude wins over an include, and a    *)
(* path no include matches is refused, also by an empty include list.       *)
C3_ShouldCheckIsExcludeThenInclude ==
    Parsed =>
        \A p \in AllPaths :
            /\ shouldCheck(defs, p) <=> InScope(p)
            /\ (\E j \in DOMAIN defs.Exclude : PathMatch(defs.Exclude[j], p))
                    => ~shouldCheck(defs, p)
            /\ (\A j \in DOMAIN defs.Include : ~PathMatch(defs.Include[j], p))
                    => ~shouldCheck(defs, p)

\* a target matched by an include and by an exclude pattern was refused, and
\* main walks the tree
C3_Witness ==
    /\ pc = "walk"
    /\ Len(args) = 3
    /\ \E j \in DOMAIN defs.Include : PathMatch(defs.Include[j], Target)
    /\ \E j \in DOMAIN defs.Exclude : PathMatch(defs.Exclude[j], Target)
    /\ Len(defs.Exclude) = 2

(* C4: adjustExpectedFilenames(targetPath) leaves every rule with           *)
(* expectedFiles = {targetPath} if the target was expected and {} if not:   *)
(* at most one element, a subset of the original, actualFiles untouched.    *)
C4_NarrowingKeepsOnlyTheTarget ==
    [][(pc = "mode" /\ pc' = "open") =>
         /\ DOMAIN expectedFilenames' = DOMAIN expectedFilenames
         /\ \A i \in DOMAIN expectedFilenames :
              /\ expectedFilenames'[i] = expectedFilenames[i] \cap {Target}
              /\ Cardinality(expectedFilenames'[i]) <= 1
              /\ expectedFilenames'[i] \subseteq expectedFilenames[i]
         /\ actualFilenames' = actualFilenames]_vars

\* narrowing kept the target for one rule and emptied another rule's
\* expectation, which named other files only
C4_Witness ==
    /\ singleFileMode
    /\ Len(defs.Rules) = 2
    /\ pc = "open"
    /\ expectedFilenames[1] = {Target}
    /\ Cardinality(Configured(1)) >= 2
    /\ expectedFilenames[2] = {}
    /\ Configured(2) # {}

(* C5: a full-tree scan that completes without I/O error ends, whatever the *)
(* order of the visits, with the same actualFiles for every rule, and so    *)
(* with the same extra, missing and verdict.                                *)
C5_ResultIndependentOfOrder ==
    (ScanCompleted /\ ~singleFileMode) =>
        /\ \A i \in Rules :
              actualFilenames[i] = {p \in ScanSet : SeenIn(i, p)}
        /\ (pc = "report" /\ ruleIdx > 1) =>
              LET i == ruleIdx - 1
              IN /\ Range(shouldNotBeThere) =
                        {p \in ScanSet : SeenIn(i, p)} \ Configured(i)
                 /\ Range(shouldBeThere) =
                        Configured(i) \ {p \in ScanSet : SeenIn(i, p)}
        /\ pc = "done" =>
              exitCode =
                IF \A i \in Rules : Configured(i) = {p \in ScanSet : SeenIn(i, p)}
                THEN 0 ELSE 2

\* a walk over two files of "." and one of gen ended, all three holding the
\* first rule's pattern
C5_Witness ==
    /\ pc = "done"
    /\ ~singleFileMode
    /\ exitCode \in {0, 2}
    /\ actualFilenames[1] = {A, B, GC}

(* C6: a run whose configuration and scan succeed ends with status 2 iff    *)
(* some rule has a non-empty extra or missing set once the scan is over,    *)
(* and with 0 otherwise; no verdict is formed while the scan goes on.       *)
C6_VerdictAfterScan ==
    /\ (pc = "done" /\ ScanCompleted) =>
          /\ exitCode \in {0, 2}
          /\ exitCode = 2 <=>
                \E i \in Rules : actualFilenames[i] # expectedFilenames[i]
    /\ ScanCompleted =>
          /\ cur = NoFile
          /\ stack = <<>>
          /\ scanned = IF singleFileMode THEN {Target} ELSE ScanSet
    /\ ~ScanCompleted =>
          /\ ruleIdx = 1
          /\ ~testFailed
          /\ shouldNotBeThere = <<>>
          /\ shouldBeThere = <<>>
          /\ exitCode \notin {0, 2}

\* a run that found patterns, all of them where they are expected, ended
\* with status 0
C6_Witness ==
    /\ pc = "done"
    /\ exitCode = 0
    /\ Len(defs.Rules) = 2
    /\ actualFilenames[1] # {}
    /\ actualFilenames[2] # {}

(* C7: after a failed ReadDir, Open or read nothing more is visited or      *)
(* scanned, Mismatches is not evaluated, no rule is reported, and the run   *)
(* ends with status 1.                                                      *)
C7_ErrorAbortsTheRun ==
    [][/\ err' # NoErr =>
            /\ pc' \in {"oops", "done"}
            /\ stack' = <<>>
            /\ cur' = NoFile
            /\ ruleIdx' = 1
            /\ ~testFailed'
            /\ stdout' = <<>>
            /\ pc' = "done" => exitCode' = 1
       /\ err # NoErr =>
            /\ pc = "oops"
            /\ exitCode' = 1
            /\ UNCHANGED <<opened, scanned, actualFilenames, expectedFilenames,
                           stack, cur, err, ruleIdx, testFailed,
                           shouldNotBeThere, shouldBeThere, stdout>>]_vars

\* a walk ended with status 1 on a failed read, one file scanned and another
\* file of the scan never opened
C7_Witness ==
    /\ pc = "done"
    /\ err = "read"
    /\ exitCode = 1
    /\ ~singleFileMode
    /\ scanned # {}
    /\ ScanSet \ opened # {}

(* C8: single-file mode is entered only for a target shouldCheck accepts;   *)
(* any other run walks "." with the configured expectations.  In            *)
(* single-file mode the expectations are narrowed before the first line is  *)
(* matched and no file but the target is scanned.                           *)
C8_SingleFileModeOnlyInScope ==
    /\ singleFileMode =>
          /\ Len(args) = 3
          /\ InScope(Target)
          /\ opened \subseteq {Target}
          /\ stack = <<>>
          /\ pc \in {"open", "read"} => cur.filename = Target
          /\ \A i \in Rules :
                expectedFilenames[i] = Configured(i) \cap {Target}
    /\ (ModeChosen /\ ~singleFileMode) =>
          /\ Len(args) = 3 => ~InScope(Target)
          /\ \A i \in Rules : expectedFilenames[i] = Configured(i)
          /\ pc = "walk" => stack[1].dirname = Root
          /\ opened \subseteq ScanSet
    /\ ~ModeChosen => (~singleFileMode /\ opened = {})

\* in single-file mode a line of the target has been matched, the first
\* rule's expectation narrowed from three files to none other than the target
C8_Witness ==
    /\ singleFileMode
    /\ pc = "read"
    /\ cur.lineNo = 2
    /\ Cardinality(Configured(1)) = 3
    /\ expectedFilenames[1] = {Target}

(* C9: matchAgainstLine tests every rule: path joins actualFiles of each    *)
(* rule whose pattern matches the line, actualFiles changes in no other     *)
(* way and never shrinks, and expectedFiles, the filters and the rule list  *)
(* stay as they are.                                                        *)
C9_EveryRuleIsTested ==
    [][/\ (pc = "read" /\ pc' = "read") =>
            LET line == fs.content[cur.filename].lines[cur.lineNo]
            IN /\ \A i \in Rules :
                    actualFilenames'[i] =
                        IF ContentMatch(defs.Rules[i].Pattern, line)
                        THEN actualFilenames[i] \cup {cur.filename}
                        ELSE actualFilenames[i]
               /\ DOMAIN actualFilenames' = DOMAIN actualFilenames
               /\ UNCHANGED <<expectedFilenames, defs>>
       /\ \A i \in DOMAIN actualFilenames :
            actualFilenames[i] \subseteq actualFilenames'[i]
       /\ pc \in {"open", "read", "walk"} =>
            UNCHANGED <<expectedFilenames, defs>>]_vars

\* two lines of a file were matched: the first holds both patterns, the
\* second the first rule's pattern again
C9_Witness ==
    /\ pc = "read"
    /\ cur.lineNo = 3
    /\ fs.content[cur.filename].lines[1] = Both
    /\ "TODO" \in fs.content[cur.filename].lines[2]
    /\ \A i \in Rules : cur.filename \in actualFilenames[i]

(* C10: during a full-tree scan actualFiles holds only regular files of the *)
(* tree that shouldCheck accepts; so an expected path that is out of scope  *)
(* or no regular file of the tree is reported missing and the run fails,    *)
(* whatever the file holds.                                                 *)
C10_ActualFilesAreScannedFiles ==
    (ModeChosen /\ ~singleFileMode) =>
        \A i \in Rules :
            /\ actualFilenames[i] \subseteq ScanSet
            /\ \A p \in expectedFilenames[i] \ ScanSet :
                  /\ pc = "done" => exitCode \in {1, 2}
                  /\ (pc = "done" /\ err = NoErr) =>
                        /\ exitCode = 2
                        /\ \E k \in DOMAIN stdout :
                              /\ stdout[k].msg = "mismatch"
                              /\ stdout[k].rule = i
                              /\ p \in stdout[k].missing
                  /\ (pc = "report" /\ ruleIdx = i + 1) =>
                        p \in Range(shouldBeThere)

\* a walk ended with status 2: an expected file holds the rule's pattern but
\* is excluded, and is reported missing
C10_Witness ==
    /\ pc = "done"
    /\ ~singleFileMode
    /\ exitCode = 2
    /\ \E i \in Rules : \E p \in expectedFilenames[i] :
          /\ InTree(p)
          /\ ~InScope(p)
          /\ SeenIn(i, p)
====
